---- MODULE Spec2Model ----
(***************************************************************************)
(* Model of the risk-score service of src/app.py: the request handler      *)
(* get_risk_data, the creation-block locator get_contract_age and the      *)
(* static-analysis adapter run_static_analysis, each request running as a  *)
(* worker thread of the HTTP framework over the process-wide state (the    *)
(* node client w3, the credential ETHERSCAN_API_KEY and os.environ).       *)
(***************************************************************************)
EXTENDS Integers, Sequences, FiniteSets, TLC

(* ------------------------------ bounds -------------------------------- *)

\* Highest chain height the node reports.
MaxHeight == 3
\* Highest chain height in the concurrent specification.
ConcMaxHeight == 0
\* Number of worker threads (requests that can be in flight together).
NumReqs == 2
\* Most findings the scanner reports for a contract in the concurrent
\* specification.
ConcMaxFindings == 1
\* Number of hexadecimal digits of an address (40 in Ethereum).
AddrLen == 1

(* ------------------------- program constants -------------------------- *)

BaseScore == 100
CriticalPenalty == 25
HighPenalty == 15
MediumPenalty == 5
MaturityBonus == 5
OneYear == 31536000

(* --------------------------- Python values ---------------------------- *)

\* Python's None, and a present value x, of an optional.
None == <<>>
Some(x) == <<x>>

\* Truth value of an optional integer: None and 0 are both falsy.
TruthyInt(o) == o # None /\ o[1] # 0

\* Truth value of a str or None: None and "" are both falsy.
TruthyStr(o) == o # None /\ o[1] # ""

\* dict.get(key) is truthy, for a key holding a string.
HasKey(d, k) == k \in DOMAIN d
GetTruthyStr(d, k) == HasKey(d, k) /\ d[k] # ""

\* dict.get(key, 0) for a key holding an integer.
GetInt(d, k) == IF HasKey(d, k) THEN d[k] ELSE 0

Max(a, b) == IF a >= b THEN a ELSE b

Reqs == 1..NumReqs

\* A dict, or a response, that is not there yet.
NoData == [pending |-> TRUE]

(* ------------------------------ addresses ----------------------------- *)

Chars == {"a", "A", "g"}
Lower(c) == IF c = "A" THEN "a" ELSE c
Upper(c) == IF c = "a" THEN "A" ELSE c
IsHexLower(c) == c = "a"

\* The address strings a client may send: every string of 1 to
\* AddrLen + 1 characters.
AddressInputs == UNION {[1..n -> Chars] : n \in 1..(AddrLen + 1)}

\* to_normalized_address: lower-case the string, then require AddrLen
\* hexadecimal digits.
Normalized(a) == [i \in 1..Len(a) |-> Lower(a[i])]
IsAddress(a) ==
    /\ Len(a) = AddrLen
    /\ \A i \in 1..Len(a) : IsHexLower(Normalized(a)[i])

\* The digits the hash of the address marks for capitals (hash digit > 7);
\* here the odd positions.
HashMarks(i) == i % 2 = 1

\* Web3.to_checksum_address on a valid address: capitals where the hash
\* marks them, lower case elsewhere.
to_checksum_address(a) ==
    [i \in 1..Len(a) |->
        IF HashMarks(i) THEN Upper(Normalized(a)[i]) ELSE Normalized(a)[i]]

\* The except clause of get_risk_data: the request is rejected when
\* to_checksum_address raises.
RejectsNothing(a) == FALSE
Rejects(a) == ~IsAddress(a)

BadRequest == [status |-> 400, detail |-> "Invalid Ethereum address format."]
\* An exception that leaves the handler: the framework answers 500.
ServerError == [status |-> 500, detail |-> "Internal Server Error"]

(* ------------------------------- chain -------------------------------- *)

\* Bytecode values the node returns: none, a contract's code (here the
\* single byte STOP), and the two bytes b'0x'.
EmptyCode == <<>>
ContractCode == <<0>>
ZeroXBytes == <<48, 120>>
CodeVals == {EmptyCode, ZeroXBytes, ContractCode}

Chains(maxh) == UNION {[0..h -> CodeVals] : h \in 0..maxh}
NoChain == [b \in {0} |-> EmptyCode]

\* The timestamp of block b: genesis at 0, a year and at times a second
\* more between two blocks.
BlockTime(b) == b * OneYear + (b \div 2)

(* ------------------------- get_contract_age --------------------------- *)

AgeNotConnected ==
    [creation_date |-> None,
     error |-> "Web3 client is not connected to node provider."]
AgeFound(timestamp, blk) ==
    [creation_date |-> Some(timestamp), block_number |-> blk]
AgeNotFoundSilent == [creation_date |-> None]
AgeNotFound ==
    [creation_date |-> None,
     error |-> "Contract code not found via binary search."]
AgeLookupFailed ==
    [creation_date |-> None, error |-> "Web3 lookup failed"]

\* if code and code != b'0x'
CodeExists(code) == code # EmptyCode /\ code # ZeroXBytes

MidBlockLinear(s, e) == s
MidBlock(s, e) == (s + e) \div 2

\* One turn of the loop body after the probe of mid.
SearchStepRecordsAlways(s, e, c, mid, exists) ==
    IF exists THEN [start |-> s, end |-> mid - 1, creation |-> Some(mid)]
    ELSE [start |-> mid + 1, end |-> e, creation |-> Some(mid)]
SearchStep(s, e, c, mid, exists) ==
    IF exists THEN [start |-> s, end |-> mid - 1, creation |-> Some(mid)]
    ELSE [start |-> mid + 1, end |-> e, creation |-> c]

(* ------------------------ run_static_analysis ------------------------- *)

Impacts == <<"high", "medium", "low", "critical">>

\* What the detectors report for a contract: the number of findings of
\* each impact.
DetectorResults ==
    [critical : {0, 1, 4, 5}, high : {0, 2}, medium : {0, 1}, low : {0, 1}]
\* The results of at most cap findings (all of them without a cap).
DetectorResultsUpTo(cap) ==
    {d \in DetectorResults :
        cap = None \/ d.critical + d.high + d.medium + d.low <= cap[1]}

RECURSIVE Repeat(_, _)
Repeat(x, n) == IF n = 0 THEN <<>> ELSE <<x>> \o Repeat(x, n - 1)

\* findings_list: the findings appended impact by impact, in the order of
\* the inner loop.
RECURSIVE FindingsFrom(_, _)
FindingsFrom(d, i) ==
    IF i > Len(Impacts) THEN <<>>
    ELSE Repeat([impact |-> Impacts[i]], d[Impacts[i]]) \o FindingsFrom(d, i + 1)

\* findings[impact] after the loop: one increment per finding appended.
RECURSIVE CountImpact(_, _)
CountImpact(list, impact) ==
    IF list = <<>> THEN 0
    ELSE (IF Head(list).impact = impact THEN 1 ELSE 0)
         + CountImpact(Tail(list), impact)

Findings(d) ==
    LET list == FindingsFrom(d, 1)
    IN [critical |-> CountImpact(list, "critical"),
        high |-> CountImpact(list, "high"),
        medium |-> CountImpact(list, "medium"),
        low |-> CountImpact(list, "low"),
        findings_list |-> list]

KeyMissing ==
    [error |-> "Etherscan API Key is required for remote analysis.",
     findings_list |-> <<>>]
SlitherFailed ==
    [error |-> "Slither Analysis Failed", findings_list |-> <<>>]
InternalError ==
    [error |-> "Internal Slither Error", findings_list |-> <<>>]

ScanOutcomes == {"ok", "SlitherException", "Exception"}

\* del os.environ['ETHERSCAN_API_KEY']
DelEnvironKeeps(env) == env
DelEnviron(env) == None

(* ------------------------------ scoring ------------------------------- *)

Penalty(analysis) ==
    IF ~GetTruthyStr(analysis, "error")
    THEN GetInt(analysis, "critical") * CriticalPenalty
         + GetInt(analysis, "high") * HighPenalty
         + GetInt(analysis, "medium") * MediumPenalty
    ELSE 0

AgeBonusAtOneYear(created, now) ==
    IF now - created >= OneYear THEN MaturityBonus ELSE 0
AgeBonus(created, now) ==
    IF now - created > OneYear THEN MaturityBonus ELSE 0

Report(addr, age, analysis, score) ==
    [status |-> 200,
     contract_address |-> addr,
     age_data |-> age,
     tvl_data |-> [tvl_score |-> "Placeholder"],
     analysis_data |-> analysis,
     final_score |-> score]

(* ------------------------------- state -------------------------------- *)

VARIABLES
    ETHERSCAN_API_KEY,  \* the credential read at start-up (None, "" or a key)
    environ,            \* os.environ['ETHERSCAN_API_KEY'] (None when absent)
    w3,                 \* "None" when start-up could not connect, else "client"
    chain,              \* chain[b]: the address's bytecode at block b
    findingsCap,        \* most findings the scanner reports (None: no cap)
    pc,                 \* pc[r]: where request r stands
    address,            \* the address string of the request
    checksum_address,
    start_block, end_block, creation_block,
    age_data, analysis_data,
    response,
    probes,             \* get_code calls of the request
    tsFetches,          \* get_block(creation_block) calls of the request
    nodeCalls,          \* every call to the node of the request
    scans,              \* scans started by the request
    envWrites,          \* writes of the request to os.environ
    nodeFailed          \* a node call of the request has failed

envVars == <<ETHERSCAN_API_KEY, w3, chain, findingsCap>>
searchVars == <<start_block, end_block, creation_block>>
vars == <<ETHERSCAN_API_KEY, environ, w3, chain, findingsCap, pc,
          address, checksum_address, start_block, end_block, creation_block,
          age_data, analysis_data, response, probes, tsFetches,
          nodeCalls, scans, envWrites, nodeFailed>>

\* w3.eth.block_number
block_number == Cardinality(DOMAIN chain) - 1

Set(f, r, v) == [f EXCEPT ![r] = v]
Inc(f, r) == [f EXCEPT ![r] = @ + 1]

InitRequests(first) ==
    /\ pc = [r \in Reqs |-> IF r <= first THEN "idle" ELSE "off"]
    /\ address = [r \in Reqs |-> <<>>]
    /\ checksum_address = [r \in Reqs |-> <<>>]
    /\ start_block = [r \in Reqs |-> 0]
    /\ end_block = [r \in Reqs |-> 0]
    /\ creation_block = [r \in Reqs |-> None]
    /\ age_data = [r \in Reqs |-> NoData]
    /\ analysis_data = [r \in Reqs |-> NoData]
    /\ response = [r \in Reqs |-> NoData]
    /\ probes = [r \in Reqs |-> 0]
    /\ tsFetches = [r \in Reqs |-> 0]
    /\ nodeCalls = [r \in Reqs |-> 0]
    /\ scans = [r \in Reqs |-> 0]
    /\ envWrites = [r \in Reqs |-> 0]
    /\ nodeFailed = [r \in Reqs |-> FALSE]

\* Module level of app.py: the credential is read from the environment
\* (so the slot holds it exactly when it is set), the client is None when
\* the node could not be reached.
InitProcess(maxh, cap) ==
    /\ ETHERSCAN_API_KEY \in {None, Some(""), Some("key")}
    /\ environ = ETHERSCAN_API_KEY
    /\ w3 \in {"None", "client"}
    /\ chain \in Chains(maxh)
    /\ w3 = "None" => chain = NoChain
    /\ findingsCap = cap

\* Requests served one at a time.
Init == InitProcess(MaxHeight, None) /\ InitRequests(1)
\* Requests served by NumReqs worker threads.
InitConc ==
    InitProcess(ConcMaxHeight, Some(ConcMaxFindings)) /\ InitRequests(NumReqs)

(* --------------------------- get_risk_data ---------------------------- *)

\* The framework routes GET /risk-score/{address} to a worker thread.
receive(r) ==
    /\ pc[r] = "idle"
    /\ \E a \in AddressInputs : address' = Set(address, r, a)
    /\ pc' = Set(pc, r, "validate")
    /\ UNCHANGED <<envVars, environ, checksum_address, searchVars, age_data,
                   analysis_data, response, probes, tsFetches,
                   nodeCalls, scans, envWrites, nodeFailed>>

\* The address is normalised, or the request ends with 400.
validate(r) ==
    /\ pc[r] = "validate"
    /\ IF Rejects(address[r])
       THEN /\ response' = Set(response, r, BadRequest)
            /\ pc' = Set(pc, r, "done")
            /\ UNCHANGED checksum_address
       ELSE /\ checksum_address' =
                   Set(checksum_address, r, to_checksum_address(address[r]))
            /\ pc' = Set(pc, r, "age")
            /\ UNCHANGED response
    /\ UNCHANGED <<envVars, environ, address, searchVars, age_data,
                   analysis_data, probes, tsFetches, nodeCalls, scans,
                   envWrites, nodeFailed>>

(* ------------------------- get_contract_age --------------------------- *)

\* if not w3 or not w3.is_connected()
age_connected(r) ==
    /\ pc[r] = "age"
    /\ IF w3 = "None"
       THEN /\ age_data' = Set(age_data, r, AgeNotConnected)
            /\ pc' = Set(pc, r, "analysis")
            /\ UNCHANGED <<nodeCalls, nodeFailed>>
       ELSE \E up \in BOOLEAN :
            /\ nodeCalls' = Inc(nodeCalls, r)
            /\ IF up
               THEN /\ pc' = Set(pc, r, "age_height")
                    /\ UNCHANGED <<age_data, nodeFailed>>
               ELSE /\ age_data' = Set(age_data, r, AgeNotConnected)
                    /\ nodeFailed' = Set(nodeFailed, r, TRUE)
                    /\ pc' = Set(pc, r, "analysis")
    /\ UNCHANGED <<envVars, environ, address, checksum_address, searchVars,
                   analysis_data, response, probes, tsFetches, scans,
                   envWrites>>

\* start_block, end_block, creation_block = 0, w3.eth.block_number, None;
\* the read of the height stands before the try.
age_height(r) ==
    /\ pc[r] = "age_height"
    /\ nodeCalls' = Inc(nodeCalls, r)
    /\ \E ok \in BOOLEAN :
        IF ok
        THEN /\ start_block' = Set(start_block, r, 0)
             /\ end_block' = Set(end_block, r, block_number)
             /\ creation_block' = Set(creation_block, r, None)
             /\ pc' = Set(pc, r, "age_loop")
             /\ UNCHANGED <<response, nodeFailed>>
        ELSE /\ response' = Set(response, r, ServerError)
             /\ nodeFailed' = Set(nodeFailed, r, TRUE)
             /\ pc' = Set(pc, r, "done")
             /\ UNCHANGED searchVars
    /\ UNCHANGED <<envVars, environ, address, checksum_address, age_data,
                   analysis_data, probes, tsFetches, scans, envWrites>>

\* One turn of the while loop: probe the bytecode at mid_block.
age_probe(r) ==
    /\ pc[r] = "age_loop"
    /\ start_block[r] <= end_block[r]
    /\ probes' = Inc(probes, r)
    /\ nodeCalls' = Inc(nodeCalls, r)
    /\ \E ok \in BOOLEAN :
        IF ok
        THEN LET mid_block == MidBlock(start_block[r], end_block[r])
                 code == chain[mid_block]
                 next == SearchStep(start_block[r], end_block[r],
                                    creation_block[r], mid_block,
                                    CodeExists(code))
             IN /\ start_block' = Set(start_block, r, next.start)
                /\ end_block' = Set(end_block, r, next.end)
                /\ creation_block' = Set(creation_block, r, next.creation)
                /\ UNCHANGED <<pc, age_data, nodeFailed>>
        ELSE /\ age_data' = Set(age_data, r, AgeLookupFailed)
             /\ nodeFailed' = Set(nodeFailed, r, TRUE)
             /\ pc' = Set(pc, r, "analysis")
             /\ UNCHANGED searchVars
    /\ UNCHANGED <<envVars, environ, address, checksum_address,
                   analysis_data, response, tsFetches, scans,
                   envWrites>>

\* After the loop: if creation_block, fetch its timestamp; else not found.
age_result(r) ==
    /\ pc[r] = "age_loop"
    /\ start_block[r] > end_block[r]
    /\ IF TruthyInt(creation_block[r])
       THEN /\ tsFetches' = Inc(tsFetches, r)
            /\ nodeCalls' = Inc(nodeCalls, r)
            /\ \E ok \in BOOLEAN :
                IF ok
                THEN /\ age_data' = Set(age_data, r,
                            AgeFound(BlockTime(creation_block[r][1]),
                                     creation_block[r][1]))
                     /\ UNCHANGED nodeFailed
                ELSE /\ age_data' = Set(age_data, r, AgeLookupFailed)
                     /\ nodeFailed' = Set(nodeFailed, r, TRUE)
       ELSE /\ age_data' = Set(age_data, r, AgeNotFound)
            /\ UNCHANGED <<tsFetches, nodeCalls, nodeFailed>>
    /\ pc' = Set(pc, r, "analysis")
    /\ UNCHANGED <<envVars, environ, address, checksum_address, searchVars,
                   analysis_data, response, probes, scans, envWrites>>

(* ------------------------ run_static_analysis ------------------------- *)

\* Without the credential return at once; else write it to os.environ.
sa_inject(r) ==
    /\ pc[r] = "analysis"
    /\ IF ~TruthyStr(ETHERSCAN_API_KEY)
       THEN /\ analysis_data' = Set(analysis_data, r, KeyMissing)
            /\ pc' = Set(pc, r, "score")
            /\ UNCHANGED <<environ, envWrites>>
       ELSE /\ environ' = ETHERSCAN_API_KEY
            /\ envWrites' = Inc(envWrites, r)
            /\ pc' = Set(pc, r, "sa_scan")
            /\ UNCHANGED analysis_data
    /\ UNCHANGED <<envVars, address, checksum_address, searchVars, age_data,
                   response, probes, tsFetches, nodeCalls, scans,
                   nodeFailed>>

\* The scan and the summary of its findings, or one of the except clauses.
sa_scan(r) ==
    /\ pc[r] = "sa_scan"
    /\ scans' = Inc(scans, r)
    /\ \E outcome \in ScanOutcomes :
        CASE outcome = "ok" ->
                \E d \in DetectorResultsUpTo(findingsCap) :
                    analysis_data' = Set(analysis_data, r, Findings(d))
          [] outcome = "SlitherException" ->
                analysis_data' = Set(analysis_data, r, SlitherFailed)
          [] outcome = "Exception" ->
                analysis_data' = Set(analysis_data, r, InternalError)
    /\ pc' = Set(pc, r, "sa_finally")
    /\ UNCHANGED <<envVars, environ, address, checksum_address, searchVars,
                   age_data, response, probes, tsFetches, nodeCalls,
                   envWrites, nodeFailed>>

\* finally: if 'ETHERSCAN_API_KEY' in os.environ
sa_finally(r) ==
    /\ pc[r] = "sa_finally"
    /\ pc' = Set(pc, r, IF environ # None THEN "sa_del" ELSE "score")
    /\ UNCHANGED <<envVars, environ, address, checksum_address, searchVars,
                   age_data, analysis_data, response, probes, tsFetches,
                   nodeCalls, scans, envWrites, nodeFailed>>

\* del os.environ['ETHERSCAN_API_KEY']: a KeyError when the key has gone
\* since the test, which leaves the handler.
sa_del(r) ==
    /\ pc[r] = "sa_del"
    /\ IF environ # None
       THEN /\ environ' = DelEnviron(environ)
            /\ pc' = Set(pc, r, "score")
            /\ UNCHANGED response
       ELSE /\ response' = Set(response, r, ServerError)
            /\ pc' = Set(pc, r, "done")
            /\ UNCHANGED environ
    /\ UNCHANGED <<envVars, address, checksum_address, searchVars, age_data,
                   analysis_data, probes, tsFetches, nodeCalls, scans,
                   envWrites, nodeFailed>>

(* ------------------------------ scoring ------------------------------- *)

\* Steps 3 to 5 of get_risk_data: the score and the response. The read of
\* the latest block stands in no try.
score(r) ==
    /\ pc[r] = "score"
    /\ LET raw_score == BaseScore - Penalty(analysis_data[r])
       IN IF TruthyInt(age_data[r].creation_date)
          THEN /\ nodeCalls' = Inc(nodeCalls, r)
               /\ \E ok \in BOOLEAN :
                   IF ok
                   THEN LET current_timestamp == BlockTime(block_number)
                            bonus == AgeBonus(age_data[r].creation_date[1],
                                              current_timestamp)
                        IN /\ response' = Set(response, r,
                                   Report(checksum_address[r], age_data[r],
                                          analysis_data[r],
                                          Max(0, raw_score + bonus)))
                           /\ UNCHANGED nodeFailed
                   ELSE /\ response' = Set(response, r, ServerError)
                        /\ nodeFailed' = Set(nodeFailed, r, TRUE)
          ELSE /\ response' = Set(response, r,
                       Report(checksum_address[r], age_data[r],
                              analysis_data[r], Max(0, raw_score)))
               /\ UNCHANGED <<nodeCalls, nodeFailed>>
    /\ pc' = Set(pc, r, "done")
    /\ UNCHANGED <<envVars, environ, address, checksum_address, searchVars,
                   age_data, analysis_data, probes, tsFetches, scans,
                   envWrites>>

\* The response is sent; the worker thread is free for the next request.
finish(r) ==
    /\ pc[r] = "done"
    /\ pc' = Set(pc, r, "idle")
    /\ address' = Set(address, r, <<>>)
    /\ checksum_address' = Set(checksum_address, r, <<>>)
    /\ start_block' = Set(start_block, r, 0)
    /\ end_block' = Set(end_block, r, 0)
    /\ creation_block' = Set(creation_block, r, None)
    /\ age_data' = Set(age_data, r, NoData)
    /\ analysis_data' = Set(analysis_data, r, NoData)
    /\ response' = Set(response, r, NoData)
    /\ probes' = Set(probes, r, 0)
    /\ tsFetches' = Set(tsFetches, r, 0)
    /\ nodeCalls' = Set(nodeCalls, r, 0)
    /\ scans' = Set(scans, r, 0)
    /\ envWrites' = Set(envWrites, r, 0)
    /\ nodeFailed' = Set(nodeFailed, r, FALSE)
    /\ UNCHANGED <<envVars, environ>>

Next ==
    \E r \in Reqs :
        \/ receive(r)
        \/ validate(r)
        \/ age_connected(r)
        \/ age_height(r)
        \/ age_probe(r)
        \/ age_result(r)
        \/ sa_inject(r)
        \/ sa_scan(r)
        \/ sa_finally(r)
        \/ sa_del(r)
        \/ score(r)
        \/ finish(r)

\* One request at a time.
Spec == Init /\ [][Next]_vars
\* NumReqs requests in flight together.
SpecConc == InitConc /\ [][Next]_vars

(* ------------------------------ claims -------------------------------- *)

\* get_contract_age has returned its dict to request r.
AgeReturned(r) == age_data[r] # NoData
\* There is a node client and no node call of request r has failed.
NoNodeFailure(r) == w3 = "client" /\ ~nodeFailed[r]
\* The bytecode is empty below block K and non-empty from K on.
Monotone(K) ==
    \A b \in DOMAIN chain :
        /\ b < K => chain[b] = EmptyCode
        /\ b >= K => chain[b] # EmptyCode
\* The bytecode is empty at every block.
AllEmpty == \A b \in DOMAIN chain : chain[b] = EmptyCode

RECURSIVE FloorLog2(_)
FloorLog2(n) == IF n <= 1 THEN 0 ELSE 1 + FloorLog2(n \div 2)
CeilLog2(n) == IF n <= 1 THEN 0 ELSE 1 + FloorLog2(n - 1)

\* C1: on a chain of height H whose bytecode is empty below K and
\* non-empty from K on, for every K in 0..H, with no node call failing,
\* get_contract_age returns block_number = K and the timestamp of block K.
C1_ReturnsThreshold ==
    \A r \in Reqs : \A K \in 0..block_number :
        (NoNodeFailure(r) /\ AgeReturned(r) /\ Monotone(K))
        => /\ HasKey(age_data[r], "block_number")
           /\ age_data[r].block_number = K
           /\ age_data[r].creation_date = Some(BlockTime(K))

\* C2: on a chain whose bytecode is empty at every block, with no node
\* call failing, get_contract_age signals not-found (creation_date None,
\* no block_number, error set) and fetches no block timestamp.
C2_NotFound ==
    \A r \in Reqs :
        (NoNodeFailure(r) /\ AgeReturned(r) /\ AllEmpty)
        => /\ age_data[r].creation_date = None
           /\ ~HasKey(age_data[r], "block_number")
           /\ GetTruthyStr(age_data[r], "error")
           /\ tsFetches[r] = 0

\* The search ran over a chain of at least three blocks, all empty.
C2_Witness ==
    \E r \in Reqs :
        /\ NoNodeFailure(r) /\ AgeReturned(r) /\ AllEmpty
        /\ block_number >= 2 /\ probes[r] >= 2

\* C3: the final_score of a report is max(0, 100 - P + B), with
\* P = 25*critical + 15*high + 5*medium when the analysis carries no error
\* and 0 otherwise, and B = 5 when the creation timestamp is set and more
\* than 31536000 seconds before the time of the latest block, 0 otherwise.
C3_ScoreFormula ==
    \A r \in Reqs :
        HasKey(response[r], "final_score")
        => LET analysis == response[r].analysis_data
               created == response[r].age_data.creation_date
               now == BlockTime(block_number)
               P == IF HasKey(analysis, "error") THEN 0
                    ELSE 25 * analysis.critical + 15 * analysis.high
                         + 5 * analysis.medium
               B == IF created # None /\ now - created[1] > 31536000
                    THEN 5 ELSE 0
           IN response[r].final_score = Max(0, 100 - P + B)

\* Two high findings and one medium one on a contract older than a year
\* score 70.
C3_Witness ==
    \E r \in Reqs :
        /\ HasKey(response[r], "final_score")
        /\ response[r].final_score = 70
        /\ ~HasKey(response[r].analysis_data, "error")
        /\ response[r].analysis_data.critical = 0
        /\ response[r].analysis_data.high = 2
        /\ response[r].analysis_data.medium = 1
        /\ response[r].age_data.creation_date # None

\* C4: a request with a well-formed address always ends with a complete
\* report (status 200), whichever node, explorer or scanner call fails.
C4_AlwaysReport ==
    \A r \in Reqs :
        (pc[r] = "done" /\ IsAddress(address[r]))
        => /\ HasKey(response[r], "status")
           /\ response[r].status = 200

\* C5: a result of run_static_analysis with error set carries critical,
\* high, medium and low, all 0, and an empty findings list.
C5_ErrorCarriesZeroCounts ==
    \A r \in Reqs :
        GetTruthyStr(analysis_data[r], "error")
        => /\ \A k \in {"critical", "high", "medium", "low"} :
                HasKey(analysis_data[r], k) /\ analysis_data[r][k] = 0
           /\ analysis_data[r].findings_list = <<>>

\* C6: from the moment a request has written the credential to the slot
\* until its scan has finished, the credential is in the slot.
C6_CredentialStaysDuringScan ==
    \A r \in Reqs : pc[r] = "sa_scan" => environ # None

\* run_static_analysis has returned to request r.
AnalysisReturned(r) == pc[r] \in {"score", "done"} /\ analysis_data[r] # NoData

\* C7: with requests served one at a time, once run_static_analysis has
\* returned, by whichever path, the credential it wrote is no longer in
\* the slot; and without a credential it neither writes the slot nor
\* starts a scan.
C7_CredentialRemoved ==
    \A r \in Reqs :
        /\ (AnalysisReturned(r) /\ envWrites[r] > 0) => environ = None
        /\ ~TruthyStr(ETHERSCAN_API_KEY) => envWrites[r] = 0 /\ scans[r] = 0

\* The scan failed, and the credential written for it is gone.
C7_Witness ==
    \E r \in Reqs :
        /\ AnalysisReturned(r) /\ envWrites[r] = 1 /\ scans[r] = 1
        /\ HasKey(analysis_data[r], "error")
        /\ environ = None

\* C8, as claimed: on a monotone chain of height H with no node call
\* failing, the bytecode probes and the timestamp fetch of the search are
\* ceil(log2(H+1)) + 1 node queries, whatever K. Stated for the
\* thresholds K >= 1, where the block found is reported and its timestamp
\* fetched.
C8_ExactProbeCount ==
    \A r \in Reqs : \A K \in 1..block_number :
        (NoNodeFailure(r) /\ AgeReturned(r) /\ Monotone(K))
        => probes[r] + tsFetches[r] = CeilLog2(block_number + 1) + 1

\* C8, amended: the search never issues more than floor(log2(H+1)) + 1
\* bytecode probes, so it ends; on a monotone chain with no node call
\* failing it has issued at least floor(log2(H+2)) probes when it
\* returns, and at most one timestamp fetch.
C8_ProbeBounds ==
    \A r \in Reqs :
        /\ w3 = "client" => probes[r] <= FloorLog2(block_number + 1) + 1
        /\ tsFetches[r] <= 1
        /\ \A K \in 0..block_number :
            (NoNodeFailure(r) /\ AgeReturned(r) /\ Monotone(K))
            => probes[r] >= FloorLog2(block_number + 2)

\* Code from the last of four blocks on: three probes and the timestamp
\* fetch, where ceil(log2(4)) + 1 is three.
C8_Witness ==
    \E r \in Reqs :
        /\ NoNodeFailure(r) /\ AgeReturned(r)
        /\ block_number = 3 /\ Monotone(3)
        /\ probes[r] = 3 /\ tsFetches[r] = 1

\* C9: a request whose address is not well-formed ends with 400 and has
\* made no node call, started no scan and written no credential; no
\* request makes any of these before its address has been validated.
C9_RejectedBeforeAnyCall ==
    \A r \in Reqs :
        /\ (pc[r] \notin {"off", "idle", "validate"} /\ ~IsAddress(address[r]))
           => /\ pc[r] = "done"
              /\ response[r] = BadRequest
              /\ nodeCalls[r] = 0 /\ probes[r] = 0 /\ tsFetches[r] = 0
              /\ scans[r] = 0 /\ envWrites[r] = 0
        /\ pc[r] = "validate"
           => /\ nodeCalls[r] = 0 /\ scans[r] = 0 /\ envWrites[r] = 0

\* An address with a character that is no hexadecimal digit was rejected.
C9_Witness ==
    \E r \in Reqs :
        /\ pc[r] = "done" /\ address[r] = <<"g">>
        /\ response[r] = BadRequest

\* C10: every dict get_contract_age returns carries either a non-null
\* creation_date with a block_number, or an error; never both, never
\* neither.
C10_DateXorError ==
    \A r \in Reqs :
        AgeReturned(r)
        => LET d == age_data[r]
               dated == /\ HasKey(d, "creation_date")
                        /\ d.creation_date # None
                        /\ HasKey(d, "block_number")
               failed == HasKey(d, "error")
           IN dated # failed

\* A probe failed in the middle of the search.
C10_Witness ==
    \E r \in Reqs :
        /\ AgeReturned(r) /\ nodeFailed[r] /\ probes[r] >= 2
        /\ HasKey(age_data[r], "error")
====
